---------------------------- MODULE Spec2Model ----------------------------
(***************************************************************************)
(* BYD Vehicle integration: the climate, switch and sensor platforms       *)
(* (custom_components/byd_vehicle/{climate,switch,sensor}.py) as a state   *)
(* machine over the shared coordinator snapshot, the entities' own fields, *)
(* the API client's per-command results and the calls in flight.           *)
(*                                                                         *)
(* Python values: None is the empty tuple and a value x that may be None   *)
(* is the one-element tuple <<x>>.  A dict is a function; a missing key is *)
(* a key outside its DOMAIN.  A number carries its Python type.            *)
(***************************************************************************)
EXTENDS Integers, Sequences, FiniteSets, Bags, TLC

VARIABLES
    data,         \* coordinator.data: the snapshot mapping
    added,        \* per platform, the entity lists passed to async_add_entities
    lastMode,     \* BydClimate._last_mode, per VIN
    lastCommand,  \* BydClimate._last_command, per VIN
    inflight,     \* command coroutines suspended in `await api.async_call`
    apiResults,   \* the API client's record of the last result per (VIN, command)
    lastStarted,  \* history: per VIN, the mode of the async_set_hvac_mode begun last
    lastDone,     \* history: per VIN, the mode of the async_set_hvac_mode that returned last
    failed,       \* history: whether an async_set_hvac_mode has raised
    issued,       \* history: the number of commands begun
    ret           \* what the latest step of a command returned or raised to its caller

vars == <<data, added, lastMode, lastCommand, inflight, apiResults,
          lastStarted, lastDone, failed, issued, ret>>

----------------------------------------------------------------------------
(* Bounds of the model. *)

\* Command coroutines that may be suspended in the API call at once.
MaxInFlight == 2
\* Commands (async_set_hvac_mode, async_turn_on) begun in one run.
MaxCommands == 2
\* Commands begun in one run of the specification of every operation.
MaxCommandsAll == 1

----------------------------------------------------------------------------
(* Python values. *)

None == <<>>
Some(x) == <<x>>
PyInt(n) == [t |-> "int", v |-> n]
PyFloat(n) == [t |-> "float", v |-> n]
PyBool(b) == [t |-> "bool", v |-> b]
PyStr(x) == [t |-> "str", v |-> x]
\* the truth value of a bool-or-None attribute
IsTrue(x) == x # None /\ x[1].t = "bool" /\ x[1].v
\* float(x): the same number as a float
Float(x) == [t |-> "float", v |-> x.v]
\* Python's ==, which compares numbers across int and float
NumEq(a, b) == a.v = b.v

\* dict.get(k, default)
DictGet(d, k, default) == IF k \in DOMAIN d THEN d[k] ELSE default
\* dict.get(k): the value wrapped, or None
MapGet(m, k) == IF k \in DOMAIN m THEN Some(m[k]) ELSE None
EmptyMap == [k \in {} |-> None]

----------------------------------------------------------------------------
(* Program constants. *)

VINS == {"VIN1", "VIN2"}
\* the order in which a vehicle map is iterated
VinOrder == <<"VIN1", "VIN2">>

OFF == "off"
HEAT_COOL == "heat_cool"
HvacModes == {OFF, HEAT_COOL}

SwitchCommands == <<"flash_lights", "honk_horn", "open_trunk", "close_windows">>
ClimateCommands == {"stop_climate", "start_climate"}
\* the per-command methods the API client exposes
ClientMethods == ClimateCommands \cup {SwitchCommands[i] : i \in 1..Len(SwitchCommands)}

\* the sentinel of "no reading" in a realtime temp_in_car
TempSentinel == -129

Categories == {"vehicles", "realtime", "energy", "hvac", "charging"}

----------------------------------------------------------------------------
(* Status objects of the snapshot.  An object is a record of its class     *)
(* name and its attributes; the classes live in the API client library.    *)

HvacStatus(on, avail, temp, new, old) ==
    [cls |-> "HvacStatus",
     is_ac_on |-> Some(PyBool(on)),
     interior_temp_available |-> Some(PyBool(avail)),
     temp_in_car |-> temp,
     main_setting_temp_new |-> new,
     main_setting_temp |-> old,
     ac_switch |-> Some(PyInt(IF on THEN 1 ELSE 0)),
     temp_out_car |-> Some(PyFloat(15)),
     front_defrost_status |-> Some(PyInt(0)),
     steering_wheel_heat_state |-> Some(PyInt(0)),
     main_seat_heat_state |-> Some(PyInt(0)),
     main_seat_ventilation_state |-> Some(PyInt(0)),
     copilot_seat_heat_state |-> Some(PyInt(0)),
     copilot_seat_ventilation_state |-> Some(PyInt(0))]

\* An entry of the hvac map that is no HvacStatus.
NotHvac == [cls |-> "dict", temp_out_car |-> Some(PyFloat(15))]

Realtime(temp) ==
    [cls |-> "VehicleRealtimeData",
     temp_in_car |-> temp,
     elec_percent |-> Some(PyInt(80)),
     speed |-> Some(PyInt(0)),
     wheel_direction |-> Some(PyInt(0))]

\* A realtime entry without the temp_in_car attribute.
RealtimeNoTemp ==
    [cls |-> "VehicleRealtimeData",
     elec_percent |-> Some(PyInt(80)),
     speed |-> Some(PyInt(0))]

Energy(total) ==
    [cls |-> "EnergyConsumption", total_energy |-> total, fuel_consumption |-> None]

Charging(soc) ==
    [cls |-> "ChargingStatus", soc |-> soc, full_hour |-> Some(PyInt(1))]

Vehicle(vin, model) ==
    [cls |-> "Vehicle",
     vin |-> Some(PyStr(vin)),
     model_name |-> model,
     brand_name |-> Some(PyStr("BYD"))]

\* isinstance(x, HvacStatus)
IsHvacStatus(x) == x.cls = "HvacStatus"
\* getattr(x, name, None)
GetAttr(x, name) == IF name \in DOMAIN x THEN x[name] ELSE None

\* coordinator.expand_metrics: the object's fields by name, found by
\* reflection over the object (the class name is no field).
ExpandMetrics(obj) == [f \in DOMAIN obj \ {"cls"} |-> obj[f]]

----------------------------------------------------------------------------
(* BydClimate: the properties (climate.py). *)

\* BydClimate._get_hvac_status: the HvacStatus of the VIN, or None
GetHvacStatus(d, vin) ==
    LET hvac_map == DictGet(d, "hvac", EmptyMap)
        hvac == MapGet(hvac_map, vin)
    IN  IF hvac # None /\ IsHvacStatus(hvac[1]) THEN hvac ELSE None

\* A variant that shows the commanded mode whatever was polled.
HvacModeCommanded(d, lm, vin) == lm[vin]

\* BydClimate.hvac_mode
HvacMode(d, lm, vin) ==
    LET hvac == GetHvacStatus(d, vin)
    IN  IF hvac # None
        THEN (IF IsTrue(hvac[1].is_ac_on) THEN HEAT_COOL ELSE OFF)
        ELSE lm[vin]

\* BydClimate.assumed_state
AssumedState(d, vin) == GetHvacStatus(d, vin) = None

\* A variant of current_temperature that returns whatever realtime holds.
CurrentTemperatureUnfiltered(d, vin) ==
    LET hvac == GetHvacStatus(d, vin)
        realtime_map == DictGet(d, "realtime", EmptyMap)
        realtime == MapGet(realtime_map, vin)
        temp == GetAttr(realtime[1], "temp_in_car")
    IN  IF hvac # None /\ IsTrue(hvac[1].interior_temp_available)
        THEN hvac[1].temp_in_car
        ELSE IF realtime # None /\ temp # None
             THEN temp
             ELSE None

\* BydClimate.current_temperature
CurrentTemperature(d, vin) ==
    LET hvac == GetHvacStatus(d, vin)
        realtime_map == DictGet(d, "realtime", EmptyMap)
        realtime == MapGet(realtime_map, vin)
        temp == GetAttr(realtime[1], "temp_in_car")
    IN  IF hvac # None /\ IsTrue(hvac[1].interior_temp_available)
        THEN hvac[1].temp_in_car
        ELSE IF realtime # None /\ temp # None /\ ~NumEq(temp[1], PyInt(TempSentinel))
             THEN temp
             ELSE None

\* BydClimate.target_temperature
TargetTemperature(d, vin) ==
    LET hvac == GetHvacStatus(d, vin)
    IN  IF hvac = None THEN None
        ELSE IF hvac[1].main_setting_temp_new # None THEN hvac[1].main_setting_temp_new
        ELSE IF hvac[1].main_setting_temp # None THEN Some(Float(hvac[1].main_setting_temp[1]))
        ELSE None

\* BydApi.get_last_remote_result(vin, command)
GetLastRemoteResult(api, vin, command) == api[vin][command]
\* the truth value of a result: None and the empty result are false
ResultTruthy(r) == r # None /\ r[1] # ""

\* A dict as a function of its keys, built from optional entries.
DictOf(keys, entry) == [k \in {k \in keys : entry[k] # None} |-> entry[k][1]]

\* BydClimate.extra_state_attributes
ClimateAttrs(d, lc, api, vin) ==
    LET hvac == GetHvacStatus(d, vin)
        cmd == lc[vin]
        last_result == GetLastRemoteResult(api, vin, cmd[1])
        has == hvac # None
        entry ==
          [vin |-> Some(Some(PyStr(vin))),
           temp_out_car |-> IF has THEN Some(hvac[1].temp_out_car) ELSE None,
           front_defrost |-> IF has THEN Some(hvac[1].front_defrost_status) ELSE None,
           steering_wheel_heat |-> IF has THEN Some(hvac[1].steering_wheel_heat_state) ELSE None,
           main_seat_heat |-> IF has THEN Some(hvac[1].main_seat_heat_state) ELSE None,
           main_seat_ventilation |-> IF has THEN Some(hvac[1].main_seat_ventilation_state) ELSE None,
           copilot_seat_heat |-> IF has THEN Some(hvac[1].copilot_seat_heat_state) ELSE None,
           copilot_seat_ventilation |-> IF has THEN Some(hvac[1].copilot_seat_ventilation_state) ELSE None,
           last_remote_command |-> IF cmd # None THEN Some(Some(PyStr(cmd[1]))) ELSE None,
           last_remote_result |-> IF cmd # None /\ ResultTruthy(last_result)
                                  THEN Some(Some(PyStr(last_result[1]))) ELSE None]
    IN  DictOf(DOMAIN entry, entry)

----------------------------------------------------------------------------
(* BydMomentarySwitch: the properties (switch.py). *)

\* BydMomentarySwitch.is_on
SwitchIsOn(e) == FALSE

\* A variant that shows the vehicle's flash_lights result on every switch.
SwitchAttrsOfFirstCommand(api, e) ==
    LET last_result == GetLastRemoteResult(api, e.vin, SwitchCommands[1])
        entry ==
          [vin |-> Some(Some(PyStr(e.vin))),
           command |-> Some(Some(PyStr(e.command))),
           last_remote_result |-> IF ResultTruthy(last_result)
                                  THEN Some(Some(PyStr(last_result[1]))) ELSE None]
    IN  DictOf(DOMAIN entry, entry)

\* BydMomentarySwitch.extra_state_attributes
SwitchAttrs(api, e) ==
    LET last_result == GetLastRemoteResult(api, e.vin, e.command)
        entry ==
          [vin |-> Some(Some(PyStr(e.vin))),
           command |-> Some(Some(PyStr(e.command))),
           last_remote_result |-> IF ResultTruthy(last_result)
                                  THEN Some(Some(PyStr(last_result[1]))) ELSE None]
    IN  DictOf(DOMAIN entry, entry)

----------------------------------------------------------------------------
(* Sensors: the properties (sensor.py). *)

\* A variant that looks every source key up as it is, "vehicle" included.
SourceMapByKey(d, source_key) == DictGet(d, source_key, EmptyMap)

\* the map a source key reads: "vehicle" reads the "vehicles" map
SourceMap(d, source_key) ==
    IF source_key = "vehicle"
    THEN DictGet(d, "vehicles", EmptyMap)
    ELSE DictGet(d, source_key, EmptyMap)

\* the metrics of the VIN's entry in a source map, {} when it has none
MetricsOf(source, vin) ==
    IF MapGet(source, vin) # None THEN ExpandMetrics(source[vin]) ELSE EmptyMap

\* BydTelemetrySensor.native_value
TelemetryNativeValue(d, e) ==
    LET source == SourceMap(d, e.source_key)
        metrics == MetricsOf(source, e.vin)
    IN  DictGet(metrics, e.key, None)

\* BydMetricSensor.native_value
MetricNativeValue(d, e) ==
    LET source == SourceMap(d, e.source_key)
        metrics == MetricsOf(source, e.vin)
    IN  DictGet(metrics, e.field, None)

----------------------------------------------------------------------------
(* Platform setup: async_setup_entry of climate.py, switch.py, sensor.py.  *)
(* An entity is the record of the fields its operations read; the vehicle  *)
(* object it keeps for its name and device_info is left out.               *)

Desc(key, source_key) == [key |-> key, source_key |-> source_key, category |-> source_key]

EXPLICIT_SENSORS ==
    << Desc("elec_percent", "realtime"),
       Desc("endurance_mileage", "realtime"),
       Desc("total_mileage", "realtime"),
       Desc("speed", "realtime"),
       Desc("temp_in_car", "realtime"),
       Desc("left_front_tire_pressure", "realtime"),
       Desc("right_front_tire_pressure", "realtime"),
       Desc("left_rear_tire_pressure", "realtime"),
       Desc("right_rear_tire_pressure", "realtime"),
       Desc("total_energy", "energy"),
       Desc("avg_energy_consumption", "energy"),
       Desc("electricity_consumption", "energy"),
       Desc("fuel_consumption", "energy"),
       Desc("soc", "charging"),
       Desc("charging_state", "charging"),
       Desc("connect_state", "charging"),
       Desc("ac_switch", "hvac"),
       Desc("temp_out_car", "hvac") >>

\* A variant that looks the source up under a key the dict does not have.
ExplicitFieldsOfUnknownKey(source_key) == {}

\* EXPLICIT_FIELDS_BY_SOURCE.get(source_key, set())
ExplicitFields(source_key) ==
    IF source_key \in {"realtime", "energy", "hvac", "charging"}
    THEN {EXPLICIT_SENSORS[i].key : i \in {j \in 1..Len(EXPLICIT_SENSORS) :
                                            EXPLICIT_SENSORS[j].source_key = source_key}}
    ELSE {}

\* the (category, source_key) pairs the sensor setup walks, in order
MetricSources == <<"vehicle", "realtime", "energy", "hvac", "charging">>

RECURSIVE Concat(_)
\* the concatenation of a sequence of sequences
Concat(ss) == IF ss = <<>> THEN <<>> ELSE Head(ss) \o Concat(Tail(ss))

\* the VINs of a vehicle map in iteration order
VinsOf(vehicle_map) == SelectSeq(VinOrder, LAMBDA v : v \in DOMAIN vehicle_map)

\* climate.async_setup_entry: the entity list
ClimateEntities(d) ==
    LET vehicle_map == DictGet(d, "vehicles", EmptyMap)
        vins == VinsOf(vehicle_map)
    IN  [i \in 1..Len(vins) |-> [vin |-> vins[i]]]

\* A variant of the switch setup that walks the realtime map's vehicles.
SwitchEntitiesOfRealtime(d) ==
    LET vehicle_map == DictGet(d, "realtime", EmptyMap)
        vins == VinsOf(vehicle_map)
        of(vin) == [c \in 1..Len(SwitchCommands) |->
                      [vin |-> vin, command |-> SwitchCommands[c]]]
    IN  Concat([i \in 1..Len(vins) |-> of(vins[i])])

\* switch.async_setup_entry: the entity list
SwitchEntities(d) ==
    LET vehicle_map == DictGet(d, "vehicles", EmptyMap)
        vins == VinsOf(vehicle_map)
        of(vin) == [c \in 1..Len(SwitchCommands) |->
                      [vin |-> vin, command |-> SwitchCommands[c]]]
    IN  Concat([i \in 1..Len(vins) |-> of(vins[i])])

RECURSIVE KeyOrder(_)
\* the keys of a dict in the order it is iterated
KeyOrder(S) ==
    IF S = {} THEN <<>>
    ELSE LET x == CHOOSE y \in S : TRUE IN <<x>> \o KeyOrder(S \ {x})

\* the fields of a metrics dict in iteration order
FieldsOf(metrics) == KeyOrder(DOMAIN metrics)

\* sensor.async_setup_entry: the entity list
SensorEntities(d) ==
    LET vehicle_map == DictGet(d, "vehicles", EmptyMap)
        vins == VinsOf(vehicle_map)
        explicit(vin) ==
            [i \in 1..Len(EXPLICIT_SENSORS) |->
               [kind |-> "telemetry", vin |-> vin,
                key |-> EXPLICIT_SENSORS[i].key,
                source_key |-> EXPLICIT_SENSORS[i].source_key,
                category |-> EXPLICIT_SENSORS[i].category]]
        dynamic(vin, source_key) ==
            LET source == IF source_key = "vehicle" THEN vehicle_map
                          ELSE DictGet(d, source_key, EmptyMap)
                metrics == MetricsOf(source, vin)
                fields == SelectSeq(FieldsOf(metrics),
                                    LAMBDA f : f \notin ExplicitFields(source_key))
            IN  [i \in 1..Len(fields) |->
                   [kind |-> "metric", vin |-> vin,
                    category |-> source_key, field |-> fields[i],
                    source_key |-> source_key]]
        of(vin) == explicit(vin)
                   \o Concat([k \in 1..Len(MetricSources) |-> dynamic(vin, MetricSources[k])])
    IN  Concat([i \in 1..Len(vins) |-> of(vins[i])])

\* BydTelemetrySensor.__init__: _attr_unique_id
TelemetryUniqueId(e) == e.vin \o "_" \o e.source_key \o "_" \o e.key
\* BydMetricSensor.__init__: _attr_unique_id
MetricUniqueId(e) == e.vin \o "_" \o e.category \o "_" \o e.field
SensorUniqueId(e) ==
    IF e.kind = "telemetry" THEN TelemetryUniqueId(e) ELSE MetricUniqueId(e)

\* The entities of a platform: those of its async_add_entities calls.
Entities(platform) == Concat(added[platform])
EntitySet(platform) == {Entities(platform)[i] : i \in 1..Len(Entities(platform))}
ClimateVins == {e.vin : e \in EntitySet("climate")}

----------------------------------------------------------------------------
(* The API client (coordinator.BydApi): async_call runs the callback with  *)
(* the client and records the command's result under (vin, command).       *)

\* How an awaited api.async_call ends: it returns, or raises an Exception
\* with a message, or raises a BaseException that is no Exception (the
\* task was cancelled).  `called` tells whether the callback had run: the
\* client method timed out, or the login before it failed.
ApiOutcomes ==
    {[kind |-> "return", msg |-> "", called |-> TRUE],
     [kind |-> "Exception", msg |-> "timeout", called |-> TRUE],
     [kind |-> "Exception", msg |-> "login failed", called |-> FALSE],
     [kind |-> "CancelledError", msg |-> "", called |-> TRUE]}

\* What the client records for the command when the call ends: the result
\* of the client method (which may be empty), a failure when the method
\* raised, and nothing new (None) when the method never ran to an end.
ApiRecords(out) ==
    CASE out.kind = "return" -> {Some("success"), Some("")}
      [] out.kind = "Exception" /\ out.called -> {Some("failed")}
      [] OTHER -> {None}

\* the record after the call ended: None leaves the earlier result
ApiRecorded(api, vin, command, rec) ==
    IF rec = None THEN api ELSE [api EXCEPT ![vin][command] = rec]

----------------------------------------------------------------------------
(* BydClimate.async_set_hvac_mode and BydMomentarySwitch.async_turn_on.    *)
(* A coroutine runs to its `await api.async_call`, is suspended there, and *)
(* runs to its end when the call ends.                                     *)

\* the command name async_set_hvac_mode remembers and passes to async_call
CommandFor(hvac_mode) == IF hvac_mode = OFF THEN "stop_climate" ELSE "start_climate"

\* _call of async_set_hvac_mode: the client method it awaits, with its argument
ClimateCall(vin, hvac_mode) ==
    IF hvac_mode = OFF THEN <<"stop_climate", vin>> ELSE <<"start_climate", vin>>

\* _call of async_turn_on: the client method named by the command, or None
\* when the client has no such method (it raises HomeAssistantError)
SwitchCall(vin, command) ==
    IF command \in ClientMethods THEN Some(<<command, vin>>) ELSE None

\* A variant that writes the entity's state before it awaits the API call.
SetHvacModeEnterWriting(vin, hvac_mode) ==
    [platform |-> "climate", vin |-> vin, arg |-> hvac_mode,
     command |-> CommandFor(hvac_mode),
     apiCalls |-> 1, writes |-> 1]

\* async_set_hvac_mode up to its await: the coroutine as suspended
SetHvacModeEnter(vin, hvac_mode) ==
    [platform |-> "climate", vin |-> vin, arg |-> hvac_mode,
     command |-> CommandFor(hvac_mode),
     apiCalls |-> 1, writes |-> 0]

\* async_turn_on up to its await
TurnOnEnter(vin, command) ==
    [platform |-> "switch", vin |-> vin, arg |-> command,
     command |-> command,
     apiCalls |-> 1, writes |-> 0]

\* A variant of the end of async_set_hvac_mode that remembers the mode
\* whether or not the API call succeeded.
SetHvacModeResumeRemembering(inv, out) ==
    IF out.kind = "return"
    THEN [outcome |-> "return", exc |-> None, done |-> TRUE,
          apiCalls |-> inv.apiCalls, writes |-> inv.writes + 1]
    ELSE [outcome |-> "raise",
          exc |-> Some([cls |-> IF out.kind = "Exception" THEN "HomeAssistantError"
                                ELSE out.kind,
                        msg |-> out.msg]),
          done |-> TRUE, apiCalls |-> inv.apiCalls, writes |-> inv.writes]

\* A variant of the end of async_set_hvac_mode that calls the API a second
\* time after a failure before it gives up.
SetHvacModeResumeRetry(inv, out) ==
    IF out.kind = "return"
    THEN [outcome |-> "return", exc |-> None, done |-> TRUE,
          apiCalls |-> inv.apiCalls, writes |-> inv.writes + 1]
    ELSE [outcome |-> "raise",
          exc |-> Some([cls |-> IF out.kind = "Exception" THEN "HomeAssistantError"
                                ELSE out.kind,
                        msg |-> out.msg]),
          done |-> FALSE, apiCalls |-> inv.apiCalls + 1, writes |-> inv.writes]

\* async_set_hvac_mode from the end of the API call: the except clause
\* turns an Exception into HomeAssistantError(str(exc)), anything else
\* propagates; after the try it sets _last_mode (done) and writes the state
SetHvacModeResume(inv, out) ==
    CASE out.kind = "return" ->
           [outcome |-> "return", exc |-> None, done |-> TRUE,
            apiCalls |-> inv.apiCalls, writes |-> inv.writes + 1]
      [] out.kind = "Exception" ->
           [outcome |-> "raise",
            exc |-> Some([cls |-> "HomeAssistantError", msg |-> out.msg]),
            done |-> FALSE, apiCalls |-> inv.apiCalls, writes |-> inv.writes]
      [] OTHER ->
           [outcome |-> "raise",
            exc |-> Some([cls |-> out.kind, msg |-> out.msg]),
            done |-> FALSE, apiCalls |-> inv.apiCalls, writes |-> inv.writes]

\* async_turn_on from the end of the API call
TurnOnResume(inv, out) ==
    CASE out.kind = "return" ->
           [outcome |-> "return", exc |-> None,
            apiCalls |-> inv.apiCalls, writes |-> inv.writes + 1]
      [] out.kind = "Exception" ->
           [outcome |-> "raise",
            exc |-> Some([cls |-> "HomeAssistantError", msg |-> out.msg]),
            apiCalls |-> inv.apiCalls, writes |-> inv.writes]
      [] OTHER ->
           [outcome |-> "raise",
            exc |-> Some([cls |-> out.kind, msg |-> out.msg]),
            apiCalls |-> inv.apiCalls, writes |-> inv.writes]

\* how the API call of an async_turn_on may end: a command the client has
\* no method for makes the callback raise
TurnOnOutcomes(inv) ==
    IF SwitchCall(inv.vin, inv.arg) = None
    THEN {[kind |-> "Exception", msg |-> "Unknown command", called |-> TRUE]}
    ELSE ApiOutcomes

\* the client calls the callback made, when async_call ran it
ClientCalls(inv, out) ==
    IF ~out.called THEN <<>>
    ELSE IF inv.platform = "climate" THEN <<ClimateCall(inv.vin, inv.arg)>>
    ELSE IF SwitchCall(inv.vin, inv.arg) # None THEN <<SwitchCall(inv.vin, inv.arg)[1]>>
    ELSE <<>>

\* ret before any command has run
NoRet == [op |-> "none", platform |-> "none"]

InFlightCount == BagCardinality(inflight)

ClimateSetHvacModeCall(vin, hvac_mode) ==
    /\ vin \in ClimateVins
    /\ InFlightCount < MaxInFlight
    /\ issued < MaxCommands
    /\ issued' = issued + 1
    /\ LET inv == SetHvacModeEnter(vin, hvac_mode)
       IN  /\ lastCommand' = [lastCommand EXCEPT ![vin] = Some(inv.command)]
           /\ inflight' = inflight (+) SetToBag({inv})
           /\ ret' = [op |-> "async_set_hvac_mode", platform |-> "climate", vin |-> vin,
                      arg |-> hvac_mode, outcome |-> "await", exc |-> None,
                      apiCalls |-> inv.apiCalls, writes |-> inv.writes,
                      clientCalls |-> <<>>, api |-> None]
    /\ lastStarted' = [lastStarted EXCEPT ![vin] = Some(hvac_mode)]
    /\ UNCHANGED <<data, added, lastMode, apiResults, lastDone, failed>>

\* A variant of the end of async_set_hvac_mode that also drops the polled
\* hvac map from the coordinator's snapshot, to show the commanded mode.
ClimateSetHvacModeEndDroppingHvac(inv, out, rec) ==
    /\ BagIn(inv, inflight)
    /\ inv.platform = "climate"
    /\ LET after == SetHvacModeResume(inv, out)
       IN  /\ lastMode' = IF after.done THEN [lastMode EXCEPT ![inv.vin] = inv.arg]
                          ELSE lastMode
           /\ data' = IF after.done THEN [k \in DOMAIN data \ {"hvac"} |-> data[k]]
                      ELSE data
           /\ ret' = [op |-> "async_set_hvac_mode", platform |-> "climate",
                      vin |-> inv.vin, arg |-> inv.arg,
                      outcome |-> after.outcome, exc |-> after.exc,
                      apiCalls |-> after.apiCalls, writes |-> after.writes,
                      clientCalls |-> ClientCalls(inv, out), api |-> Some(out)]
    /\ inflight' = inflight (-) SetToBag({inv})
    /\ apiResults' = ApiRecorded(apiResults, inv.vin, inv.command, rec)
    /\ lastDone' = IF out.kind = "return" THEN [lastDone EXCEPT ![inv.vin] = Some(inv.arg)]
                   ELSE lastDone
    /\ failed' = (failed \/ out.kind # "return")
    /\ UNCHANGED <<added, lastCommand, lastStarted, issued>>

\* the end of async_set_hvac_mode, when its API call ended with `out`
ClimateSetHvacModeEnd(inv, out, rec) ==
    /\ BagIn(inv, inflight)
    /\ inv.platform = "climate"
    /\ LET after == SetHvacModeResume(inv, out)
       IN  /\ lastMode' = IF after.done THEN [lastMode EXCEPT ![inv.vin] = inv.arg]
                          ELSE lastMode
           /\ ret' = [op |-> "async_set_hvac_mode", platform |-> "climate",
                      vin |-> inv.vin, arg |-> inv.arg,
                      outcome |-> after.outcome, exc |-> after.exc,
                      apiCalls |-> after.apiCalls, writes |-> after.writes,
                      clientCalls |-> ClientCalls(inv, out), api |-> Some(out)]
    /\ inflight' = inflight (-) SetToBag({inv})
    /\ apiResults' = ApiRecorded(apiResults, inv.vin, inv.command, rec)
    /\ lastDone' = IF out.kind = "return" THEN [lastDone EXCEPT ![inv.vin] = Some(inv.arg)]
                   ELSE lastDone
    /\ failed' = (failed \/ out.kind # "return")
    /\ UNCHANGED <<data, added, lastCommand, lastStarted, issued>>

SwitchTurnOnCall(e) ==
    /\ e \in EntitySet("switch")
    /\ InFlightCount < MaxInFlight
    /\ issued < MaxCommands
    /\ issued' = issued + 1
    /\ LET inv == TurnOnEnter(e.vin, e.command)
       IN  /\ inflight' = inflight (+) SetToBag({inv})
           /\ ret' = [op |-> "async_turn_on", platform |-> "switch", vin |-> e.vin,
                      arg |-> e.command, outcome |-> "await", exc |-> None,
                      apiCalls |-> inv.apiCalls, writes |-> inv.writes,
                      clientCalls |-> <<>>, api |-> None]
    /\ UNCHANGED <<data, added, lastMode, lastCommand, apiResults, lastStarted, lastDone,
                   failed>>

SwitchTurnOnEnd(inv, out, rec) ==
    /\ BagIn(inv, inflight)
    /\ inv.platform = "switch"
    /\ out \in TurnOnOutcomes(inv)
    /\ LET after == TurnOnResume(inv, out)
       IN  ret' = [op |-> "async_turn_on", platform |-> "switch",
                   vin |-> inv.vin, arg |-> inv.arg,
                   outcome |-> after.outcome, exc |-> after.exc,
                   apiCalls |-> after.apiCalls, writes |-> after.writes,
                   clientCalls |-> ClientCalls(inv, out), api |-> Some(out)]
    /\ inflight' = inflight (-) SetToBag({inv})
    /\ apiResults' = ApiRecorded(apiResults, inv.vin, inv.command, rec)
    /\ UNCHANGED <<data, added, lastMode, lastCommand, lastStarted, lastDone, failed, issued>>

\* BydMomentarySwitch.async_turn_off
SwitchTurnOff(e) ==
    /\ e \in EntitySet("switch")
    /\ ret' = [op |-> "async_turn_off", platform |-> "switch", vin |-> e.vin,
               arg |-> e.command, outcome |-> "return", exc |-> None,
               apiCalls |-> 0, writes |-> 1, clientCalls |-> <<>>, api |-> None]
    /\ UNCHANGED <<data, added, lastMode, lastCommand, inflight, apiResults,
                   lastStarted, lastDone, failed, issued>>

----------------------------------------------------------------------------
(* Property reads: the host reads an entity's property and gets its value. *)

ClimateProps == {"hvac_mode", "assumed_state", "current_temperature",
                 "target_temperature", "extra_state_attributes"}
SwitchProps == {"is_on", "extra_state_attributes"}

ClimateProp(prop, vin) ==
    CASE prop = "hvac_mode" -> HvacMode(data, lastMode, vin)
      [] prop = "assumed_state" -> AssumedState(data, vin)
      [] prop = "current_temperature" -> CurrentTemperature(data, vin)
      [] prop = "target_temperature" -> TargetTemperature(data, vin)
      [] prop = "extra_state_attributes" -> ClimateAttrs(data, lastCommand, apiResults, vin)

\* A read computes the property from the state and changes nothing.
ClimateRead(vin, prop) ==
    /\ vin \in ClimateVins
    /\ ClimateProp(prop, vin) \in {ClimateProp(prop, vin)}
    /\ UNCHANGED vars

SwitchProp(prop, e) ==
    IF prop = "is_on" THEN SwitchIsOn(e) ELSE SwitchAttrs(apiResults, e)

SwitchRead(e, prop) ==
    /\ e \in EntitySet("switch")
    /\ SwitchProp(prop, e) \in {SwitchProp(prop, e)}
    /\ UNCHANGED vars

SensorNativeValue(e) ==
    IF e.kind = "telemetry" THEN TelemetryNativeValue(data, e)
    ELSE MetricNativeValue(data, e)

SensorRead(e) ==
    /\ e \in EntitySet("sensor")
    /\ SensorNativeValue(e) \in {SensorNativeValue(e)}
    /\ UNCHANGED vars

----------------------------------------------------------------------------
(* The host: platform setup, once per platform, and the coordinator's      *)
(* refresh, which replaces the snapshot.                                   *)

Platforms == {"climate", "switch", "sensor"}

PlatformEntities(platform, d) ==
    CASE platform = "climate" -> ClimateEntities(d)
      [] platform = "switch" -> SwitchEntities(d)
      [] platform = "sensor" -> SensorEntities(d)

\* async_setup_entry: builds the list and hands it to async_add_entities
SetupEntry(platform) ==
    /\ added[platform] = <<>>
    /\ added' = [added EXCEPT ![platform] = Append(@, PlatformEntities(platform, data))]
    /\ UNCHANGED <<data, lastMode, lastCommand, inflight, apiResults, lastStarted, lastDone,
                   failed, issued, ret>>

\* the coordinator's refresh to a snapshot of U
Refresh(U) ==
    /\ \E d \in U : data' = d
    /\ UNCHANGED <<added, lastMode, lastCommand, inflight, apiResults, lastStarted, lastDone,
                   failed, issued, ret>>

----------------------------------------------------------------------------
(* The snapshots the runs draw from. *)

Optional(S) == {None} \cup {Some(x) : x \in S}
MapsOver(objs) == UNION {[S -> objs] : S \in SUBSET VINS}

\* a snapshot of the given optional maps: None leaves the key out
Snapshot(entry) == DictOf(Categories, entry)

VehicleObj(v) == Vehicle(v, Some(PyStr("Seal")))
HvacOn == HvacStatus(TRUE, TRUE, Some(PyFloat(22)), Some(PyFloat(25)), Some(PyInt(24)))
HvacOff == HvacStatus(FALSE, FALSE, None, None, None)

\* every category filled for every vehicle
Baseline ==
    [vehicles |-> Some([v \in VINS |-> VehicleObj(v)]),
     realtime |-> Some([v \in VINS |-> Realtime(Some(PyInt(21)))]),
     energy |-> Some([v \in VINS |-> Energy(Some(PyFloat(15)))]),
     hvac |-> Some([v \in VINS |-> HvacOn]),
     charging |-> Some([v \in VINS |-> Charging(Some(PyInt(80)))])]

\* the baseline with one category's map replaced (None: the key left out)
WithMap(k, m) == Snapshot([Baseline EXCEPT ![k] = m])

\* the baseline with one vehicle's hvac and realtime entries replaced
\* (None: the vehicle has no entry)
WithEntries(v, h, r) ==
    LET put(m, x) == IF x = None THEN [w \in DOMAIN m \ {v} |-> m[w]]
                     ELSE [m EXCEPT ![v] = x[1]]
    IN  Snapshot([Baseline EXCEPT !.hvac = Some(put(@[1], h)),
                                  !.realtime = Some(put(@[1], r))])

\* snapshots for the command runs: the hvac map varies, so that each
\* vehicle has an HvacStatus with the AC on, one with it off, an entry that
\* is no HvacStatus, no entry, and no hvac map
CommandSnapshots ==
    {WithMap("hvac", None),
     WithMap("hvac", Some([v \in VINS |-> IF v = "VIN1" THEN HvacOn ELSE HvacOff])),
     WithMap("hvac", Some([v \in VINS |-> IF v = "VIN1" THEN HvacOff ELSE NotHvac])),
     WithMap("hvac", Some([v \in {"VIN2"} |-> HvacOn]))}

\* snapshots for the climate reads: one vehicle's hvac and realtime entries vary
Temps == {None, Some(PyFloat(22))}
NewTemps == {None, Some(PyFloat(25))}
OldTemps == {None, Some(PyInt(24))}
RichHvacObjs ==
    {NotHvac} \cup {HvacStatus(on, avail, t, new, old) :
                      on \in BOOLEAN, avail \in BOOLEAN, t \in Temps,
                      new \in NewTemps, old \in OldTemps}
RichRealtimeObjs ==
    {RealtimeNoTemp} \cup {Realtime(t) : t \in {None, Some(PyInt(TempSentinel)),
                                                 Some(PyFloat(TempSentinel)), Some(PyInt(21))}}
ClimateSnapshots ==
    {WithEntries(v, h, r) : v \in VINS, h \in Optional(RichHvacObjs),
                            r \in Optional(RichRealtimeObjs)}
    \cup {WithMap(k, None) : k \in {"hvac", "realtime"}}

\* snapshots for the sensor reads and the setup: one category at a time
\* loses its key, is empty, lacks the first vehicle, or holds other objects
OtherObj(k) ==
    CASE k = "vehicles" -> Vehicle("VIN1", None)
      [] k = "realtime" -> RealtimeNoTemp
      [] k = "energy" -> Energy(None)
      [] k = "hvac" -> NotHvac
      [] k = "charging" -> Charging(Some(PyInt(81)))
CategoryMaps(k) ==
    {None, Some(EmptyMap),
     Some([v \in {"VIN2"} |-> Baseline[k][1][v]]),
     Some([v \in VINS |-> IF v = "VIN1" THEN OtherObj(k) ELSE Baseline[k][1][v]])}
SensorSnapshots ==
    {Snapshot(Baseline)} \cup UNION {{WithMap(k, m) : m \in CategoryMaps(k)} : k \in Categories}

----------------------------------------------------------------------------
(* Specifications. *)

\* The integration with the platforms of `loaded` set up on a first snapshot of U.
InitOn(U, loaded) ==
    /\ data \in U
    /\ added = [p \in Platforms |-> IF p \in loaded THEN <<PlatformEntities(p, data)>>
                                    ELSE <<>>]
    /\ lastMode = [v \in VINS |-> OFF]
    /\ lastCommand = [v \in VINS |-> None]
    /\ inflight = EmptyBag
    /\ apiResults = [v \in VINS |-> [c \in ClientMethods |-> None]]
    /\ lastStarted = [v \in VINS |-> None]
    /\ lastDone = [v \in VINS |-> None]
    /\ failed = FALSE
    /\ issued = 0
    /\ ret = NoRet

Invocations == DOMAIN inflight

\* the switch commands the user presses in the command runs
Pressed == {"flash_lights", "open_trunk"}

ClimateCommandSteps ==
    \/ \E v \in VINS, m \in HvacModes : ClimateSetHvacModeCall(v, m)
    \/ \E inv \in Invocations, out \in ApiOutcomes : \E rec \in ApiRecords(out) :
          ClimateSetHvacModeEnd(inv, out, rec)

SwitchCommandSteps(commands) ==
    \/ \E e \in EntitySet("switch") : e.command \in commands /\ SwitchTurnOnCall(e)
    \/ \E inv \in Invocations, out \in ApiOutcomes : \E rec \in ApiRecords(out) :
          SwitchTurnOnEnd(inv, out, rec)
    \/ \E e \in EntitySet("switch") : SwitchTurnOff(e)

Reads ==
    \/ \E v \in VINS, p \in ClimateProps : ClimateRead(v, p)
    \/ \E e \in EntitySet("switch"), p \in SwitchProps : SwitchRead(e, p)
    \/ \E e \in EntitySet("sensor") : SensorRead(e)

AllSwitchCommands == {SwitchCommands[i] : i \in 1..Len(SwitchCommands)}

\* The running integration: every operation of every entity, on the
\* entities set up from the baseline, while the hvac map comes and goes.
Init == InitOn({Snapshot(Baseline)}, Platforms)
Next ==
    \/ Refresh({Snapshot(Baseline), WithMap("hvac", None)})
    \/ (ClimateCommandSteps /\ issued' <= MaxCommandsAll)
    \/ (SwitchCommandSteps(AllSwitchCommands) /\ issued' <= MaxCommandsAll)
    \/ Reads
Spec == Init /\ [][Next]_vars

\* Commands on the climate and switch entities.
InitCommands == InitOn({Snapshot(Baseline)}, {"climate", "switch"})
NextCommands ==
    \/ Refresh({Snapshot(Baseline), WithMap("hvac", None)})
    \/ ClimateCommandSteps
    \/ SwitchCommandSteps(Pressed)
SpecCommands == InitCommands /\ [][NextCommands]_vars

\* async_set_hvac_mode calls on the climate entities while the hvac map changes.
InitMode == InitOn(CommandSnapshots, {"climate"})
NextMode ==
    \/ Refresh(CommandSnapshots)
    \/ ClimateCommandSteps
SpecMode == InitMode /\ [][NextMode]_vars

\* Climate property reads while one vehicle's entries change.
InitClimate == InitOn(ClimateSnapshots, {"climate"})
NextClimate ==
    \/ Refresh(ClimateSnapshots)
    \/ \E v \in VINS, p \in ClimateProps : ClimateRead(v, p)
SpecClimate == InitClimate /\ [][NextClimate]_vars

\* Sensor reads while one category changes.
InitSensor == InitOn(SensorSnapshots, {"sensor"})
NextSensor ==
    \/ Refresh(SensorSnapshots)
    \/ \E e \in EntitySet("sensor") : SensorRead(e)
SpecSensor == InitSensor /\ [][NextSensor]_vars

\* Platform setup on whatever snapshot the coordinator holds.
InitSetup == InitOn(SensorSnapshots, {})
NextSetup ==
    \/ Refresh(SensorSnapshots)
    \/ \E p \in Platforms : SetupEntry(p)
SpecSetup == InitSetup /\ [][NextSetup]_vars

----------------------------------------------------------------------------
(* Properties. *)

\* the operations that call the API
ApiOps == {"async_set_hvac_mode", "async_turn_on"}

\* the latest command step ended an operation whose API call failed with an Exception
ApiFailed ==
    /\ ret.op \in ApiOps
    /\ ret.outcome # "await"
    /\ ret.api[1].kind = "Exception"

\* C1: when the API call of async_set_hvac_mode or async_turn_on fails with
\* an exception, the operation ends by raising HomeAssistantError with that
\* exception's message, after exactly one async_call and at most one client
\* command (no retry).
C1_FailureRaisesHomeAssistantError ==
    ApiFailed =>
        /\ ret.outcome = "raise"
        /\ ret.exc = Some([cls |-> "HomeAssistantError", msg |-> ret.api[1].msg])
        /\ ret.apiCalls = 1
        /\ Len(ret.clientCalls) <= 1
        /\ ret.writes = 0

\* an async_set_hvac_mode whose client method raised "timeout" has ended
C1_Witness ==
    /\ ApiFailed
    /\ ret.op = "async_set_hvac_mode"
    /\ ret.api[1].msg = "timeout"
    /\ ret.outcome = "raise"

\* C2: no entity operation (a property read, async_set_hvac_mode,
\* async_turn_on, async_turn_off, succeeding or failing) changes the
\* coordinator's snapshot: a step that changes the snapshot is a coordinator
\* update, which changes nothing of any entity or command.
C2_OnlyCoordinatorChangesSnapshot ==
    [][data' # data =>
         UNCHANGED <<added, lastMode, lastCommand, inflight, apiResults,
                     lastStarted, lastDone, failed, issued, ret>>]_vars

\* an async_set_hvac_mode has succeeded while the snapshot has no hvac map,
\* and the other four maps are those of the baseline
C2_Witness ==
    /\ ret.op = "async_set_hvac_mode"
    /\ ret.outcome = "return"
    /\ data = WithMap("hvac", None)
    /\ lastMode[ret.vin] = ret.arg

\* the category map a sensor's source names, and the field it shows
SensorCategory(e) == IF e.source_key = "vehicle" THEN "vehicles" ELSE e.source_key
SensorField(e) == IF e.kind = "telemetry" THEN e.key ELSE e.field

\* the sensor's field in the expanded metrics of the current snapshot's
\* entry for its category and VIN, None when map, entry or field is missing
CurrentFieldValue(e) ==
    IF SensorCategory(e) \notin DOMAIN data THEN None
    ELSE IF e.vin \notin DOMAIN data[SensorCategory(e)] THEN None
    ELSE IF SensorField(e) \notin DOMAIN ExpandMetrics(data[SensorCategory(e)][e.vin])
         THEN None
    ELSE ExpandMetrics(data[SensorCategory(e)][e.vin])[SensorField(e)]

\* C3: after any sequence of coordinator updates, the native_value of every
\* BydTelemetrySensor and BydMetricSensor is its field in the expanded
\* metrics of the current snapshot's entry for its source category and VIN
\* (source "vehicle" reads the "vehicles" map), and None when the category
\* map, the VIN's entry or the field is missing.
C3_NativeValueIsCurrentField ==
    \A e \in EntitySet("sensor") : SensorNativeValue(e) = CurrentFieldValue(e)

\* after setup, one sensor of a vehicle shows a value of the "vehicles" map
\* while a sensor set up for a field of the same vehicle has lost its entry
C3_Witness ==
    \E e1, e2 \in EntitySet("sensor") :
        /\ e1.source_key = "vehicle" /\ SensorNativeValue(e1) # None
        /\ e2.vin = e1.vin /\ e2.kind = "metric"
        /\ SensorCategory(e2) \in DOMAIN data
        /\ e2.vin \notin DOMAIN data[SensorCategory(e2)]
        /\ SensorNativeValue(e2) = None

\* an attribute dict shows `key` exactly when `shown`, and then with `value`
ShowsExactly(attrs, key, shown, value) ==
    /\ (key \in DOMAIN attrs) <=> shown
    /\ shown => attrs[key] = value

\* the client's recorded result for (vin, command) as an attribute value
RecordedResult(vin, command) ==
    IF apiResults[vin][command] = None THEN None
    ELSE Some(PyStr(apiResults[vin][command][1]))

\* the client has a non-empty result recorded for (vin, command)
HasResult(vin, command) ==
    apiResults[vin][command] # None /\ apiResults[vin][command] # Some("")

\* C4: a switch's attributes contain last_remote_result exactly when the
\* client's recorded result for (its VIN, its command) is non-empty, and
\* then equal it; a climate entity's attributes contain last_remote_command
\* exactly when a set-hvac-mode command was attempted, naming the latest
\* attempt, and last_remote_result exactly when the recorded result for
\* (its VIN, that command) is non-empty. No other VIN's or command's result
\* is shown.
C4_AttributesShowOwnRecordedResult ==
    /\ \A e \in EntitySet("switch") :
          ShowsExactly(SwitchAttrs(apiResults, e), "last_remote_result",
                       HasResult(e.vin, e.command), RecordedResult(e.vin, e.command))
    /\ \A v \in ClimateVins :
          LET attrs == ClimateAttrs(data, lastCommand, apiResults, v)
              attempted == lastStarted[v] # None
              command == IF lastStarted[v] = Some(OFF) THEN "stop_climate"
                         ELSE "start_climate"
          IN  /\ ShowsExactly(attrs, "last_remote_command", attempted,
                              Some(PyStr(command)))
              /\ ShowsExactly(attrs, "last_remote_result",
                              attempted /\ HasResult(v, command),
                              RecordedResult(v, command))

\* a climate entity whose latest attempt has no result shows none although
\* its other command has one
C4_Witness ==
    /\ \E v \in ClimateVins :
          /\ lastStarted[v] = Some(OFF)
          /\ HasResult(v, "start_climate") /\ ~HasResult(v, "stop_climate")
          /\ "last_remote_result" \notin
                 DOMAIN ClimateAttrs(data, lastCommand, apiResults, v)

\* the VINs of the snapshot's vehicle map, none when the key is missing
SnapshotVins == IF "vehicles" \in DOMAIN data THEN DOMAIN data["vehicles"] ELSE {}

\* how often x occurs in a list
Occurrences(list, x) == Cardinality({i \in DOMAIN list : list[i] = x})

\* the list holds exactly one climate entity per VIN of the snapshot
OneClimatePerVin(list) ==
    /\ Len(list) = Cardinality(SnapshotVins)
    /\ \A v \in SnapshotVins : Occurrences(list, [vin |-> v]) = 1

\* the list holds exactly the four switches per VIN of the snapshot
FourSwitchesPerVin(list) ==
    /\ Len(list) = 4 * Cardinality(SnapshotVins)
    /\ \A v \in SnapshotVins :
          \A c \in {"flash_lights", "honk_horn", "open_trunk", "close_windows"} :
             Occurrences(list, [vin |-> v, command |-> c]) = 1

\* C5: the setup of the climate and of the switch platform registers, in
\* one async_add_entities call, one BydClimate per VIN of the vehicle map
\* of the snapshot at setup time and four BydMomentarySwitch per VIN
\* (flash_lights, honk_horn, open_trunk, close_windows); no vehicles key or
\* an empty vehicle map gives no entities.
C5_SetupAddsEntitiesPerVehicle ==
    [][/\ added'["climate"] # added["climate"] =>
            /\ Len(added'["climate"]) = Len(added["climate"]) + 1
            /\ OneClimatePerVin(added'["climate"][Len(added'["climate"])])
       /\ added'["switch"] # added["switch"] =>
            /\ Len(added'["switch"]) = Len(added["switch"]) + 1
            /\ FourSwitchesPerVin(added'["switch"][Len(added'["switch"])])]_vars

\* the climate platform was set up on a snapshot without vehicles and the
\* switch platform on one with two
C5_Witness ==
    /\ added["climate"] = << <<>> >>
    /\ Len(added["switch"]) = 1
    /\ Len(added["switch"][1]) = 8

\* the client method an operation is to invoke
MethodOf(op, arg) ==
    IF op = "async_turn_on" THEN arg
    ELSE IF arg = OFF THEN "stop_climate" ELSE "start_climate"

\* C6: async_set_hvac_mode and async_turn_on call the API and then write
\* the state: async_write_ha_state is called at most once per invocation,
\* only after the API call returned, never while it is awaited nor when
\* it raised; the client method invoked is stop_climate for OFF and
\* start_climate for any other mode, resp. the method named by the switch's
\* command, each with the entity's VIN.
C6_CallThenWrite ==
    /\ \A inv \in DOMAIN inflight : inv.writes = 0 /\ inv.apiCalls = 1
    /\ ret.op \in ApiOps =>
          /\ ret.writes <= 1
          /\ ret.writes = 1 <=> ret.outcome = "return"
          /\ ret.outcome = "return" => ret.api # None /\ ret.api[1].kind = "return"
          /\ ret.outcome = "await" => ret.clientCalls = <<>>
          /\ ret.outcome # "await" =>
                ret.clientCalls = IF ret.api[1].called
                                  THEN << <<MethodOf(ret.op, ret.arg), ret.vin>> >>
                                  ELSE <<>>

\* an async_turn_on of open_trunk on the second vehicle has returned
\* while another command is still awaited
C6_Witness ==
    /\ ret.op = "async_turn_on"
    /\ ret.outcome = "return"
    /\ ret.writes = 1
    /\ ret.clientCalls = << <<"open_trunk", "VIN2">> >>
    /\ inflight # EmptyBag

\* the current snapshot holds an HvacStatus for the vehicle
HasHvacStatus(v) ==
    /\ "hvac" \in DOMAIN data
    /\ v \in DOMAIN data["hvac"]
    /\ data["hvac"][v].cls = "HvacStatus"

\* C7: hvac_mode prefers polled data: when the current snapshot holds an
\* HvacStatus for the entity's VIN, hvac_mode is HEAT_COOL exactly when
\* is_ac_on is true and OFF otherwise, whatever was commanded; when it holds
\* none, hvac_mode is the mode of the most recent async_set_hvac_mode that
\* completed successfully, OFF if there was none.  assumed_state is true
\* exactly in the second case.
C7_HvacModePrefersPolled ==
    \A v \in ClimateVins :
        /\ AssumedState(data, v) <=> ~HasHvacStatus(v)
        /\ HasHvacStatus(v) =>
              HvacMode(data, lastMode, v) =
                 IF data["hvac"][v].is_ac_on = Some(PyBool(TRUE)) THEN HEAT_COOL ELSE OFF
        /\ ~HasHvacStatus(v) =>
              HvacMode(data, lastMode, v) =
                 IF lastDone[v] = None THEN OFF ELSE lastDone[v][1]

\* one vehicle without HvacStatus shows the completed HEAT_COOL command,
\* another shows the polled OFF although HEAT_COOL was commanded and done
C7_Witness ==
    \E v, w \in ClimateVins :
        /\ ~HasHvacStatus(v) /\ lastDone[v] = Some(HEAT_COOL)
        /\ HvacMode(data, lastMode, v) = HEAT_COOL
        /\ HasHvacStatus(w) /\ lastDone[w] = Some(HEAT_COOL)
        /\ HvacMode(data, lastMode, w) = OFF

\* a step of a command: one begins, or one in flight ends
CommandStep == issued' # issued \/ inflight' # inflight

\* C8: an async_set_hvac_mode that fails leaves the remembered mode as it
\* was (neither its start nor its failing end changes _last_mode), but
\* after any attempt, failed or successful, last_remote_command names the
\* command of the most recently started attempt: stop_climate for OFF,
\* start_climate otherwise.
C8_FailureKeepsModeUpdatesCommand ==
    [][CommandStep =>
         /\ ret'.outcome # "return" => lastMode' = lastMode
         /\ \A v \in ClimateVins :
               lastStarted'[v] # None =>
                  LET attrs == ClimateAttrs(data', lastCommand', apiResults', v)
                  IN  /\ "last_remote_command" \in DOMAIN attrs
                      /\ attrs["last_remote_command"] =
                            Some(PyStr(IF lastStarted'[v] = Some(OFF) THEN "stop_climate"
                                       ELSE "start_climate"))]_vars

\* a HEAT_COOL attempt has failed: the remembered mode is still OFF and the
\* remembered command is start_climate
C8_Witness ==
    /\ ret.op = "async_set_hvac_mode"
    /\ ret.outcome = "raise"
    /\ ret.arg = HEAT_COOL
    /\ lastMode[ret.vin] = OFF
    /\ lastDone[ret.vin] = None
    /\ lastCommand[ret.vin] = Some("start_climate")

\* C9: under any interleaving of async_set_hvac_mode calls on a climate
\* entity, once no call is in flight and all calls succeeded, the remembered
\* mode agrees with the remembered command: _last_mode is OFF exactly when
\* _last_command is stop_climate.  (Stated for entities with at least one
\* call; the calls overlap at the await and end in any order.)
C9_ModeAgreesWithCommand ==
    (inflight = EmptyBag /\ ~failed) =>
        \A v \in ClimateVins :
            lastStarted[v] # None =>
               (lastMode[v] = OFF <=> lastCommand[v] = Some("stop_climate"))

\* the snapshot's HvacStatus of the vehicle reports an interior temperature
InteriorTempAvailable(v) ==
    HasHvacStatus(v) /\ data["hvac"][v].interior_temp_available = Some(PyBool(TRUE))

\* the realtime entry of the vehicle has a temp_in_car that is a reading
RealtimeHasReading(v) ==
    /\ "realtime" \in DOMAIN data
    /\ v \in DOMAIN data["realtime"]
    /\ "temp_in_car" \in DOMAIN data["realtime"][v]
    /\ data["realtime"][v].temp_in_car # None
    /\ data["realtime"][v].temp_in_car[1].v # TempSentinel

\* two optional numbers are both None or the same number
SameNumber(a, b) == IF a = None \/ b = None THEN a = b ELSE a[1].v = b[1].v

\* C10: current_temperature is the HvacStatus's temp_in_car when the
\* snapshot has an HvacStatus for the VIN with interior_temp_available;
\* otherwise the realtime entry's temp_in_car when that entry exists and
\* the value is neither None nor the sentinel -129; otherwise None, so the
\* sentinel never comes out of the realtime fallback.  target_temperature
\* is main_setting_temp_new when not None, else main_setting_temp (as a
\* number) when not None, else None, and None without an HvacStatus.
C10_Temperatures ==
    \A v \in ClimateVins :
        /\ CurrentTemperature(data, v) =
              IF InteriorTempAvailable(v) THEN data["hvac"][v].temp_in_car
              ELSE IF RealtimeHasReading(v) THEN data["realtime"][v].temp_in_car
              ELSE None
        /\ ~InteriorTempAvailable(v) =>
              \/ CurrentTemperature(data, v) = None
              \/ CurrentTemperature(data, v)[1].v # TempSentinel
        /\ SameNumber(TargetTemperature(data, v),
                      IF ~HasHvacStatus(v) THEN None
                      ELSE IF data["hvac"][v].main_setting_temp_new # None
                           THEN data["hvac"][v].main_setting_temp_new
                      ELSE data["hvac"][v].main_setting_temp)
        /\ ~HasHvacStatus(v) => TargetTemperature(data, v) = None

\* an HvacStatus without interior temperature and without the new setting,
\* over a realtime entry that holds the sentinel as a float
C10_Witness ==
    \E v \in ClimateVins :
        /\ HasHvacStatus(v) /\ ~InteriorTempAvailable(v)
        /\ "realtime" \in DOMAIN data /\ v \in DOMAIN data["realtime"]
        /\ "temp_in_car" \in DOMAIN data["realtime"][v]
        /\ data["realtime"][v].temp_in_car = Some(PyFloat(TempSentinel))
        /\ CurrentTemperature(data, v) = None
        /\ data["hvac"][v].main_setting_temp_new = None
        /\ TargetTemperature(data, v) = Some(PyFloat(24))

\* the explicit keys of a source, read off EXPLICIT_SENSORS
ExplicitKeysOf(source) ==
    {EXPLICIT_SENSORS[i].key :
       i \in {j \in 1..Len(EXPLICIT_SENSORS) : EXPLICIT_SENSORS[j].source_key = source}}

\* the fields discovered in the snapshot's entry of a source for a vehicle
DiscoveredFields(source, v) ==
    LET cat == IF source = "vehicle" THEN "vehicles" ELSE source
    IN  IF cat \in DOMAIN data /\ v \in DOMAIN data[cat]
        THEN DOMAIN ExpandMetrics(data[cat][v]) ELSE {}

\* the sensors of a list that are of a kind, for a vehicle, source and field
SensorsFor(list, kind, v, source, field) ==
    {i \in DOMAIN list :
       /\ list[i].kind = kind /\ list[i].vin = v /\ list[i].source_key = source
       /\ SensorField(list[i]) = field}

\* the list is the claimed partition for the snapshot it was built from
SensorPartition(list) ==
    /\ \A i \in DOMAIN list : list[i].vin \in SnapshotVins
    /\ \A v \in SnapshotVins :
          /\ Cardinality({i \in DOMAIN list : list[i].kind = "telemetry"
                                               /\ list[i].vin = v})
                = Len(EXPLICIT_SENSORS)
          /\ \A d \in 1..Len(EXPLICIT_SENSORS) :
                Cardinality(SensorsFor(list, "telemetry", v, EXPLICIT_SENSORS[d].source_key,
                                       EXPLICIT_SENSORS[d].key)) = 1
          /\ \A k \in 1..Len(MetricSources) :
                \A f \in DiscoveredFields(MetricSources[k], v) :
                   Cardinality(SensorsFor(list, "metric", v, MetricSources[k], f))
                     = IF f \in ExplicitKeysOf(MetricSources[k]) THEN 0 ELSE 1
    /\ \A i \in DOMAIN list :
          list[i].kind = "metric" =>
             /\ list[i].source_key \in {"vehicle", "realtime", "energy", "hvac", "charging"}
             /\ list[i].field \in DiscoveredFields(list[i].source_key, list[i].vin)
    /\ \A i, j \in DOMAIN list :
          (list[i].kind = "telemetry" /\ list[j].kind = "metric") =>
             ~(/\ list[i].vin = list[j].vin
               /\ list[i].source_key = list[j].source_key
               /\ list[i].key = list[j].field)
    /\ \A i, j \in DOMAIN list :
          i # j => SensorUniqueId(list[i]) # SensorUniqueId(list[j])

\* C11: the sensor setup creates, for each vehicle of the snapshot, one
\* BydTelemetrySensor per entry of EXPLICIT_SENSORS (whether or not the
\* snapshot has the field) and one BydMetricSensor for each field
\* discovered in the vehicle, realtime, energy, hvac or charging entry of
\* that VIN that is no explicit key of the same source, and nothing else;
\* no (VIN, source, field) gets an explicit and a dynamic sensor, and the
\* unique ids of one setup are pairwise distinct (the VINs have no
\* underscore).
C11_SensorSetupPartition ==
    [][added'["sensor"] # added["sensor"] =>
         /\ Len(added'["sensor"]) = Len(added["sensor"]) + 1
         /\ SensorPartition(added'["sensor"][Len(added'["sensor"])])]_vars

\* a setup gave a vehicle the explicit realtime temp_in_car sensor and a
\* dynamic sensor for the temp_in_car of its hvac entry, and the other
\* vehicle dynamic sensors besides its explicit ones
C11_Witness ==
    /\ Len(added["sensor"]) = 1
    /\ \E i, j \in DOMAIN added["sensor"][1] :
          LET list == added["sensor"][1]
          IN  /\ list[i].kind = "telemetry" /\ list[i].source_key = "realtime"
              /\ list[i].key = "temp_in_car"
              /\ list[j].kind = "metric" /\ list[j].source_key = "hvac"
              /\ list[j].field = "temp_in_car" /\ list[j].vin = list[i].vin
              /\ SensorUniqueId(list[i]) = "VIN2_realtime_temp_in_car"
              /\ SensorUniqueId(list[j]) = "VIN2_hvac_temp_in_car"
    /\ Cardinality({i \in DOMAIN added["sensor"][1] :
                      added["sensor"][1][i].vin = "VIN1"}) > Len(EXPLICIT_SENSORS)

============================================================================
